---- MODULE Spec2Model ----
(***************************************************************************)
(* Model of teste_jaccard/jaccard.ipynb: the prerequisite-graph pipeline   *)
(* (remover_ciclos, calcular_profundidade), the similarity functions       *)
(* (jaccard_similarity, similaridade_jaccard, similaridade_profundidade,   *)
(* similaridade_node2vec, similaridade_combinada) and the filtered pair    *)
(* enumeration loop (filtro_tpei_exato and the writer loop).               *)
(*                                                                         *)
(* A graph (nx.DiGraph) is a record [nodes, edges]; edges are pairs        *)
(* <<u, v>>.  A dict is a function whose DOMAIN is its key set.  Floats    *)
(* that the code produces by division are exact rationals <<num, den>>.    *)
(***************************************************************************)
EXTENDS Integers, Sequences, FiniteSets, TLC

VARIABLES grafo, G_copy, removidos, profundidades, pc, ia, ib, rows, ret, frame

vars == <<grafo, G_copy, removidos, profundidades, pc, ia, ib, rows, ret, frame>>

\* ---------------------------------------------------------------- bounds
NumNodes == 3
MaxEdges == 4
\* nodes of the graph handed to the pair enumeration
EnumNodes == 2
\* largest depth in a loaded depth map, largest value of a T/P/E/I attribute
MaxProf == 3
MaxTPEI == 1
\* largest weight in a caller-supplied pesos dict
MaxPeso == 1
\* rows of the catalog table, names in one RECOMENDACAO cell
NumRegistros == 2
MaxRecs == 2

Ids == 1..NumNodes

\* value of a variable a specification does not use
Nenhum == "nenhum"

\* ---------------------------------------------------------------- graphs
\* every nx.DiGraph over identifiers of Ids with at most MaxEdges edges
\* (self-loops and overlapping cycles included)
Grafos ==
  UNION { { [nodes |-> V, edges |-> E] :
              E \in { X \in SUBSET (V \X V) : Cardinality(X) <= MaxEdges } } :
          V \in SUBSET Ids }

\* G.predecessors(n) / G.successors(n) for a node of the graph
Predecessors(G, n) == { e[1] : e \in { x \in G.edges : x[2] = n } }

Successors(G, n) == { e[2] : e \in { x \in G.edges : x[1] = n } }

\* a removal that names the edge backwards
RemoveEdgeInvertida(G, u, v) == [nodes |-> G.nodes, edges |-> G.edges \ {<<v, u>>}]

\* G_copy.remove_edge(u, v)
RemoveEdge(G, u, v) == [nodes |-> G.nodes, edges |-> G.edges \ {<<u, v>>}]

\* a cycle search that overlooks self-loops
FindCycleSemLacos(G) ==
  { s \in UNION { [1..k -> G.nodes] : k \in 2..Cardinality(G.nodes) } :
      /\ \A i, j \in DOMAIN s : i # j => s[i] # s[j]
      /\ \A i \in DOMAIN s : <<s[i], s[(i % Len(s)) + 1]>> \in G.edges }

\* nx.find_cycle(G, orientation='original'): the cycles it may return, each a
\* sequence of nodes n1..nk standing for the edge list
\* (n1,n2), (n2,n3), ..., (nk,n1).  The traversal returns one simple cycle;
\* which one depends on the node and adjacency order, left open here.
\* An empty result stands for the NetworkXNoCycle exception.
FindCycle(G) ==
  { s \in UNION { [1..k -> G.nodes] : k \in 1..Cardinality(G.nodes) } :
      /\ \A i, j \in DOMAIN s : i # j => s[i] # s[j]
      /\ \A i \in DOMAIN s : <<s[i], s[(i % Len(s)) + 1]>> \in G.edges }

\* ciclo[0]: the first edge (u, v) of the cycle
PrimeiraAresta(s) == <<s[1], s[(1 % Len(s)) + 1]>>

\* ---------------------------------------------------------------- remover_ciclos
\* an iteration that removes the edge but forgets to count it
RemoverPassoSemContar ==
  /\ pc = "remover_ciclos"
  /\ \E ciclo \in FindCycle(G_copy) :
       LET uv == PrimeiraAresta(ciclo) IN
         G_copy' = RemoveEdge(G_copy, uv[1], uv[2])
  /\ UNCHANGED <<grafo, removidos, profundidades, pc, ia, ib, rows, ret, frame>>

\* one iteration of the while loop: a cycle is found, its first edge removed
RemoverPasso ==
  /\ pc = "remover_ciclos"
  /\ \E ciclo \in FindCycle(G_copy) :
       LET uv == PrimeiraAresta(ciclo) IN
         /\ G_copy' = RemoveEdge(G_copy, uv[1], uv[2])
         /\ removidos' = removidos + 1
  /\ UNCHANGED <<grafo, profundidades, pc, ia, ib, rows, ret, frame>>

\* find_cycle raises NetworkXNoCycle: the loop ends and G_copy is returned;
\* the main flow goes on with calcular_profundidade(grafo_sem_ciclos)
RemoverFim ==
  /\ pc = "remover_ciclos"
  /\ FindCycle(G_copy) = {}
  /\ pc' = "calcular_profundidade"
  /\ profundidades' = << >>
  /\ UNCHANGED <<grafo, G_copy, removidos, ia, ib, rows, ret, frame>>

\* ---------------------------------------------------------------- calcular_profundidade
\* a depth taken from the shallowest predecessor instead of the deepest
ProfundidadeDeMin(G, prof, node) ==
  LET preds == Predecessors(G, node) IN
    IF preds = {} THEN 0
    ELSE (CHOOSE m \in { prof[p] : p \in preds } :
            \A p \in preds : m <= prof[p]) + 1

\* the value assigned to profundidades[node] in the loop body
ProfundidadeDe(G, prof, node) ==
  LET preds == Predecessors(G, node) IN
    IF preds = {} THEN 0
    ELSE (CHOOSE m \in { prof[p] : p \in preds } :
            \A p \in preds : prof[p] <= m) + 1

\* nodes nx.topological_sort may yield next: not yet yielded, every
\* predecessor already yielded
ProximosTopologicos(G, feitos) ==
  { n \in G.nodes \ feitos : Predecessors(G, n) \subseteq feitos }

\* one iteration of "for node in nx.topological_sort(G)"
ProfundidadePasso ==
  /\ pc = "calcular_profundidade"
  /\ \E node \in ProximosTopologicos(G_copy, DOMAIN profundidades) :
       profundidades' =
         [n \in DOMAIN profundidades \cup {node} |->
            IF n = node THEN ProfundidadeDe(G_copy, profundidades, node)
            ELSE profundidades[n]]
  /\ UNCHANGED <<grafo, G_copy, removidos, pc, ia, ib, rows, ret, frame>>

\* the topological order is exhausted: profundidades is returned
ProfundidadeFim ==
  /\ pc = "calcular_profundidade"
  /\ DOMAIN profundidades = G_copy.nodes
  /\ pc' = "fim"
  /\ UNCHANGED <<grafo, G_copy, removidos, profundidades, ia, ib, rows, ret, frame>>

\* ---------------------------------------------------------------- main flow (steps 4-5)
\* state at the call remover_ciclos(grafo): G_copy = G.copy(), removidos = 0
Init ==
  /\ grafo \in Grafos
  /\ G_copy = grafo
  /\ removidos = 0
  /\ profundidades = << >>
  /\ pc = "remover_ciclos"
  /\ ia = Nenhum /\ ib = Nenhum /\ rows = Nenhum /\ ret = Nenhum /\ frame = Nenhum

Next == RemoverPasso \/ RemoverFim \/ ProfundidadePasso \/ ProfundidadeFim

Spec == Init /\ [][Next]_vars

\* remover_ciclos alone, from its call to its return; the loop is sequential
\* code that keeps running, so a step that stays possible is taken
NextRemover == RemoverPasso \/ RemoverFim

SpecRemover == Init /\ [][NextRemover]_vars /\ WF_vars(NextRemover)

\* ---------------------------------------------------------------- properties of the main flow
\* nodes reachable from the nodes of S along one or more edges of E
RECURSIVE Fecho(_, _)
Fecho(E, S) ==
  LET T == S \cup { e[2] : e \in { x \in E : x[1] \in S } } IN
    IF T = S THEN S ELSE Fecho(E, T)

Descendentes(G, n) == Fecho(G.edges, Successors(G, n))

\* a directed cycle: some node reaches itself
TemCiclo(G) == \E n \in G.nodes : n \in Descendentes(G, n)

\* remover_ciclos has returned
Retornou == pc \in {"calcular_profundidade", "fim"}

\* C1: for every finite directed graph (self-loops and overlapping cycles
\* included) remover_ciclos returns a graph with exactly the input's nodes,
\* a subset of its edges, and no directed cycle.
C1_SemCiclos ==
  Retornou =>
    /\ G_copy.nodes = grafo.nodes
    /\ G_copy.edges \subseteq grafo.edges
    /\ ~TemCiclo(G_copy)

\* a returned graph whose input had a self-loop and a longer cycle through
\* the same node, after at least two removals
C1_Witness ==
  /\ Retornou
  /\ removidos >= 2
  /\ \E n, m \in grafo.nodes :
       /\ n # m
       /\ {<<n, n>>, <<n, m>>, <<m, n>>} \subseteq grafo.edges

\* C2: the number of removed edges is 0 exactly when the input was already
\* acyclic, and an acyclic input is returned with its nodes and edges
\* unchanged.
C2_ZeroSseAciclico ==
  Retornou =>
    /\ (removidos = 0) <=> ~TemCiclo(grafo)
    /\ ~TemCiclo(grafo) => G_copy = grafo

\* an acyclic input with three or more edges, returned with nothing removed
C2_Witness ==
  /\ Retornou
  /\ ~TemCiclo(grafo)
  /\ Cardinality(grafo.edges) >= 3
  /\ removidos = 0

\* C3: on a directed acyclic graph calcular_profundidade gives every node a
\* depth: 0 without predecessors, otherwise 1 + the largest depth of a direct
\* predecessor; so no node is shallower than any of its ancestors.
C3_Profundidade ==
  pc = "fim" =>
    /\ DOMAIN profundidades = G_copy.nodes
    /\ \A n \in G_copy.nodes :
         LET preds == { p \in G_copy.nodes : <<p, n>> \in G_copy.edges } IN
           /\ preds = {} => profundidades[n] = 0
           /\ preds # {} =>
                /\ \A p \in preds : profundidades[n] >= profundidades[p] + 1
                /\ \E p \in preds : profundidades[n] = profundidades[p] + 1
    /\ \A m, n \in G_copy.nodes :
         n \in Descendentes(G_copy, m) => profundidades[n] >= profundidades[m]

\* a finished depth map with a node at depth 2 that also has a direct
\* predecessor at depth 0
C3_Witness ==
  /\ pc = "fim"
  /\ \E n, p, q \in G_copy.nodes :
       /\ {<<p, n>>, <<q, n>>} \subseteq G_copy.edges
       /\ profundidades[n] = 2
       /\ profundidades[p] = 0
       /\ profundidades[q] = 1

\* ---------------------------------------------------------------- dicts
\* d.get(k, default)
Get(d, k, default) == IF k \in DOMAIN d THEN d[k] ELSE default

\* d.get(k): None is << >>, a stored value v is <<v>>
GetOpt(d, k) == IF k \in DOMAIN d THEN <<d[k]>> ELSE << >>

Abs(x) == IF x < 0 THEN -x ELSE x

\* ---------------------------------------------------------------- filtro_tpei_exato
Campos == {"T", "P", "E", "I"}

\* a comparison that leaves the last field out
FiltroTpeiExatoSemI(G, a, b) ==
  \A campo \in {"T", "P", "E"} :
    GetOpt(G.attrs[a], campo) = GetOpt(G.attrs[b], campo)

\* the loop returns False at the first field whose .get() values differ
FiltroTpeiExato(G, a, b) ==
  \A campo \in Campos : GetOpt(G.attrs[a], campo) = GetOpt(G.attrs[b], campo)

\* ---------------------------------------------------------------- pair enumeration loop
\* the literal of the depth filter
MaxDepthGap == 2

\* a depth filter that compares the signed difference
ForaDaFaixaSemAbs(prof, a, b) ==
  Get(prof, a, 0) - Get(prof, b, 0) > MaxDepthGap

\* abs(profundidades.get(a, 0) - profundidades.get(b, 0)) > 2
ForaDaFaixa(prof, a, b) ==
  Abs(Get(prof, a, 0) - Get(prof, b, 0)) > MaxDepthGap

\* grafo.nodes(): the nodes in insertion order
NodeOrder == [i \in 1..EnumNodes |-> i]

\* the nested for loops move on to the next (a, b), or end
Avancar ==
  IF ib < Len(NodeOrder) THEN ia' = ia /\ ib' = ib + 1 /\ pc' = pc
  ELSE IF ia < Len(NodeOrder) THEN ia' = ia + 1 /\ ib' = 1 /\ pc' = pc
  ELSE ia' = ia /\ ib' = ib /\ pc' = "fim"

\* if a == b: continue
EnumMesmoNo ==
  /\ pc = "enumerar"
  /\ NodeOrder[ia] = NodeOrder[ib]
  /\ Avancar
  /\ UNCHANGED <<grafo, G_copy, removidos, profundidades, rows, ret, frame>>

\* depth filter: continue
EnumFiltroProfundidade ==
  /\ pc = "enumerar"
  /\ NodeOrder[ia] # NodeOrder[ib]
  /\ ForaDaFaixa(profundidades, NodeOrder[ia], NodeOrder[ib])
  /\ Avancar
  /\ UNCHANGED <<grafo, G_copy, removidos, profundidades, rows, ret, frame>>

\* TPEI filter: continue
EnumFiltroTPEI ==
  /\ pc = "enumerar"
  /\ NodeOrder[ia] # NodeOrder[ib]
  /\ ~ForaDaFaixa(profundidades, NodeOrder[ia], NodeOrder[ib])
  /\ ~FiltroTpeiExato(grafo, NodeOrder[ia], NodeOrder[ib])
  /\ Avancar
  /\ UNCHANGED <<grafo, G_copy, removidos, profundidades, rows, ret, frame>>

\* a loop that writes each unordered pair once
EnumEscreveSemRepetir ==
  /\ pc = "enumerar"
  /\ NodeOrder[ia] # NodeOrder[ib]
  /\ ~ForaDaFaixa(profundidades, NodeOrder[ia], NodeOrder[ib])
  /\ FiltroTpeiExato(grafo, NodeOrder[ia], NodeOrder[ib])
  /\ rows' = IF ia < ib THEN Append(rows, <<NodeOrder[ia], NodeOrder[ib]>>)
             ELSE rows
  /\ Avancar
  /\ UNCHANGED <<grafo, G_copy, removidos, profundidades, ret, frame>>

\* the pair passed both filters: writer.writerow([a, b, ...]); a row is kept
\* as its key <<a, b>>, the scores that follow it in the file are those of
\* similaridade_combinada
EnumEscreve ==
  /\ pc = "enumerar"
  /\ NodeOrder[ia] # NodeOrder[ib]
  /\ ~ForaDaFaixa(profundidades, NodeOrder[ia], NodeOrder[ib])
  /\ FiltroTpeiExato(grafo, NodeOrder[ia], NodeOrder[ib])
  /\ rows' = Append(rows, <<NodeOrder[ia], NodeOrder[ib]>>)
  /\ Avancar
  /\ UNCHANGED <<grafo, G_copy, removidos, profundidades, ret, frame>>

\* node attribute dicts that agree on every field but campo, which holds any
\* value or is missing
AtributosCom(campo) ==
  UNION { [ {campo} -> 0..MaxTPEI ], { << >> } }

DictsTPEI(campo) ==
  { [c \in (Campos \ {campo}) \cup DOMAIN d |-> IF c = campo THEN d[c] ELSE 0] :
      d \in AtributosCom(campo) }

\* depth maps as carregar_profundidades may load them: any subset of the
\* nodes, depths 0..MaxProf
MapasDeProfundidade(nodes) ==
  UNION { [S -> 0..MaxProf] : S \in SUBSET nodes }

\* state when the loop starts: the header row is written, the graph, its node
\* attributes and the depth map are loaded
InitEnum ==
  /\ \E campo \in Campos :
       grafo \in { [nodes |-> 1..EnumNodes, edges |-> {}, attrs |-> at] :
                     at \in [1..EnumNodes -> DictsTPEI(campo)] }
  /\ profundidades \in MapasDeProfundidade(1..EnumNodes)
  /\ ia = 1 /\ ib = 1
  /\ rows = << >>
  /\ pc = "enumerar"
  /\ G_copy = Nenhum /\ removidos = Nenhum /\ ret = Nenhum /\ frame = Nenhum

NextEnum == EnumMesmoNo \/ EnumFiltroProfundidade \/ EnumFiltroTPEI \/ EnumEscreve

SpecEnum == InitEnum /\ [][NextEnum]_vars

\* ---------------------------------------------------------------- properties of the enumeration
\* the rows written so far
Linhas == { rows[i] : i \in DOMAIN rows }

Ocorrencias(a, b) == Cardinality({ i \in DOMAIN rows : rows[i] = <<a, b>> })

PassaProfundidade(a, b) ==
  LET pa == IF a \in DOMAIN profundidades THEN profundidades[a] ELSE 0
      pb == IF b \in DOMAIN profundidades THEN profundidades[b] ELSE 0 IN
    pa - pb <= MaxDepthGap /\ pb - pa <= MaxDepthGap

PassaTPEI(a, b) ==
  \A campo \in Campos :
    LET da == grafo.attrs[a]
        db == grafo.attrs[b] IN
      IF campo \in DOMAIN da
      THEN campo \in DOMAIN db /\ da[campo] = db[campo]
      ELSE campo \notin DOMAIN db

\* C6: after a complete run every ordered pair of distinct nodes has exactly
\* one row if it passes the depth filter and the TPEI filter and none
\* otherwise; no row has a = b; (a, b) and (b, a) are both written when both
\* pass.
C6_UmaLinhaPorPar ==
  pc = "fim" =>
    /\ \A a, b \in grafo.nodes :
         Ocorrencias(a, b) =
           IF a # b /\ PassaProfundidade(a, b) /\ PassaTPEI(a, b) THEN 1 ELSE 0
    /\ \A r \in Linhas : r[1] \in grafo.nodes /\ r[2] \in grafo.nodes

\* a finished run with the rows (a, b) and (b, a) both written
C6_Witness ==
  /\ pc = "fim"
  /\ \E a, b \in grafo.nodes :
       a # b /\ Ocorrencias(a, b) = 1 /\ Ocorrencias(b, a) = 1

\* ---------------------------------------------------------------- floats
RECURSIVE MDC(_, _)
MDC(x, y) == IF y = 0 THEN x ELSE MDC(y, x % y)

\* the float n / d (d > 0) as a reduced fraction
Frac(n, d) == LET g == MDC(Abs(n), d) IN <<n \div g, d \div g>>

Zero == <<0, 1>>
One == <<1, 1>>

\* x + y and w * x for fractions x, y and a number w
Soma(x, y) == Frac(x[1] * y[2] + y[1] * x[2], x[2] * y[2])
Vezes(w, x) == Frac(w * x[1], x[2])

\* ---------------------------------------------------------------- jaccard_similarity
\* a variant that scores two empty sets as identical
JaccardSimilarityVazios(set1, set2) ==
  IF set1 = {} /\ set2 = {} THEN One
  ELSE IF set1 = {} \/ set2 = {} THEN Zero
  ELSE Frac(Cardinality(set1 \cap set2), Cardinality(set1 \cup set2))

\* a variant that divides by the size of the first set
JaccardSimilaritySobreSet1(set1, set2) ==
  IF set1 = {} \/ set2 = {} THEN Zero
  ELSE Frac(Cardinality(set1 \cap set2), Cardinality(set1))

JaccardSimilarity(set1, set2) ==
  IF set1 = {} \/ set2 = {} THEN Zero
  ELSE Frac(Cardinality(set1 \cap set2), Cardinality(set1 \cup set2))

\* ---------------------------------------------------------------- similaridade_jaccard
\* G.predecessors / G.successors raise NetworkXError for a node that is not
\* in the graph; the except clause returns 0.0
SimilaridadeJaccard(G, a, b, tipo) ==
  IF a \notin G.nodes \/ b \notin G.nodes THEN Zero
  ELSE IF tipo = "predecessor"
       THEN JaccardSimilarity(Predecessors(G, a), Predecessors(G, b))
       ELSE JaccardSimilarity(Successors(G, a), Successors(G, b))

\* ---------------------------------------------------------------- similaridade_profundidade
\* max(prof.values())
MaxValor(prof) ==
  CHOOSE m \in { prof[k] : k \in DOMAIN prof } : \A k \in DOMAIN prof : prof[k] <= m

\* a variant without the flat-graph case
SimilaridadeProfundidadeSemPlano(prof, a, b) ==
  IF a \notin DOMAIN prof \/ b \notin DOMAIN prof THEN Zero
  ELSE LET max_p == MaxValor(prof) IN
    IF max_p = 0 THEN Zero
    ELSE Frac(max_p - Abs(prof[a] - prof[b]), max_p)

SimilaridadeProfundidade(prof, a, b) ==
  IF a \notin DOMAIN prof \/ b \notin DOMAIN prof THEN Zero
  ELSE LET max_p == MaxValor(prof) IN
    IF max_p = 0 THEN One
    ELSE Frac(max_p - Abs(prof[a] - prof[b]), max_p)

\* ---------------------------------------------------------------- calls of the similarity functions
\* the arguments of one call
ChamadasJaccardSimilarity ==
  { [fn |-> "jaccard_similarity", set1 |-> s1, set2 |-> s2] :
      s1 \in SUBSET Ids, s2 \in SUBSET Ids }

ChamadasSimilaridadeJaccard ==
  { [fn |-> "similaridade_jaccard", G |-> g, a |-> x, b |-> y, tipo |-> t] :
      g \in Grafos, x \in Ids, y \in Ids, t \in {"predecessor", "successor"} }

ChamadasSimilaridadeProfundidade ==
  { [fn |-> "similaridade_profundidade", prof |-> m, a |-> x, b |-> y] :
      m \in MapasDeProfundidade(Ids), x \in Ids, y \in Ids }

ChamarJaccardSimilarity ==
  /\ pc = "chamar"
  /\ frame.fn = "jaccard_similarity"
  /\ ret' = JaccardSimilarity(frame.set1, frame.set2)
  /\ pc' = "retornou"
  /\ UNCHANGED <<grafo, G_copy, removidos, profundidades, ia, ib, rows, frame>>

ChamarSimilaridadeJaccard ==
  /\ pc = "chamar"
  /\ frame.fn = "similaridade_jaccard"
  /\ ret' = SimilaridadeJaccard(frame.G, frame.a, frame.b, frame.tipo)
  /\ pc' = "retornou"
  /\ UNCHANGED <<grafo, G_copy, removidos, profundidades, ia, ib, rows, frame>>

ChamarSimilaridadeProfundidade ==
  /\ pc = "chamar"
  /\ frame.fn = "similaridade_profundidade"
  /\ ret' = SimilaridadeProfundidade(frame.prof, frame.a, frame.b)
  /\ pc' = "retornou"
  /\ UNCHANGED <<grafo, G_copy, removidos, profundidades, ia, ib, rows, frame>>

InitSim ==
  /\ \/ frame \in ChamadasJaccardSimilarity
     \/ frame \in ChamadasSimilaridadeJaccard
     \/ frame \in ChamadasSimilaridadeProfundidade
  /\ pc = "chamar"
  /\ ret = Nenhum
  /\ grafo = Nenhum /\ G_copy = Nenhum /\ removidos = Nenhum
  /\ profundidades = Nenhum /\ ia = Nenhum /\ ib = Nenhum /\ rows = Nenhum

NextSim ==
  \/ ChamarJaccardSimilarity
  \/ ChamarSimilaridadeJaccard
  \/ ChamarSimilaridadeProfundidade

SpecSim == InitSim /\ [][NextSim]_vars

\* ---------------------------------------------------------------- properties of the similarity functions
Retornado(fn) == pc = "retornou" /\ frame.fn = fn

\* C7: jaccard_similarity(S1, S2) lies in [0, 1], is 1 for S1 = S2 non-empty,
\* and is exactly 0 when either set is empty, both empty included; the
\* value similaridade_jaccard passes on lies in [0, 1] as well.
C7_Jaccard ==
  /\ Retornado("jaccard_similarity") =>
       /\ ret[2] > 0 /\ 0 <= ret[1] /\ ret[1] <= ret[2]
       /\ (frame.set1 = frame.set2 /\ frame.set1 # {}) => ret = <<1, 1>>
       /\ (frame.set1 = {} \/ frame.set2 = {}) => ret = <<0, 1>>
  /\ Retornado("similaridade_jaccard") =>
       ret[2] > 0 /\ 0 <= ret[1] /\ ret[1] <= ret[2]

\* jaccard_similarity has returned for two empty sets
C7_Witness ==
  /\ Retornado("jaccard_similarity")
  /\ frame.set1 = {} /\ frame.set2 = {}

PredsDe(G, n) == { p \in G.nodes : <<p, n>> \in G.edges }

\* A and B each have two direct predecessors, exactly one of them common
UmDeDoisEmComum ==
  /\ Retornado("similaridade_jaccard")
  /\ frame.tipo = "predecessor"
  /\ frame.a \in frame.G.nodes /\ frame.b \in frame.G.nodes
  /\ Cardinality(PredsDe(frame.G, frame.a)) = 2
  /\ Cardinality(PredsDe(frame.G, frame.b)) = 2
  /\ Cardinality(PredsDe(frame.G, frame.a) \cap PredsDe(frame.G, frame.b)) = 1

\* C8 as stated: when A and B each have two direct predecessors, exactly one
\* of them common to both, similaridade_jaccard(G, A, B, 'predecessor') is 1/2.
C8_Original == UmDeDoisEmComum => ret = <<1, 2>>

\* C8 as amended: in that case the union has three predecessors and
\* similaridade_jaccard(G, A, B, 'predecessor') is 1/3.
C8_UmTerco == UmDeDoisEmComum => ret = <<1, 3>>

C8_Witness == UmDeDoisEmComum /\ frame.a # frame.b

\* the depth map is not empty and its largest depth is 0
MapaPlano(prof) == DOMAIN prof # {} /\ \A k \in DOMAIN prof : prof[k] = 0

\* C9 as stated: when the largest depth in the depth map is 0,
\* similaridade_profundidade returns 1.0 for every pair of node identifiers.
C9_Original ==
  (Retornado("similaridade_profundidade") /\ MapaPlano(frame.prof)) => ret = <<1, 1>>

\* C9 as amended: when the largest depth in the depth map is 0,
\* similaridade_profundidade returns 1.0 for every pair of node identifiers
\* that are both in the depth map (and 0.0 when either is missing from it).
C9_PlanoPresentes ==
  (Retornado("similaridade_profundidade") /\ MapaPlano(frame.prof)) =>
    ret = IF frame.a \in DOMAIN frame.prof /\ frame.b \in DOMAIN frame.prof
          THEN <<1, 1>> ELSE <<0, 1>>

\* a call on a flat depth map for two different nodes of the map, and the
\* map leaves another node out
C9_Witness ==
  /\ Retornado("similaridade_profundidade")
  /\ MapaPlano(frame.prof)
  /\ frame.a # frame.b
  /\ {frame.a, frame.b} \subseteq DOMAIN frame.prof
  /\ DOMAIN frame.prof # Ids

\* ---------------------------------------------------------------- similaridade_node2vec
\* embedding tables: a vector for any subset of the identifiers; vectors have
\* one dimension here
TabelasDeEmbeddings == UNION { [S -> -1..1] : S \in SUBSET Ids }

\* cosine_similarity of two one-dimensional vectors: each is scaled to unit
\* norm (a zero vector stays zero), then they are multiplied.  The result is
\* a numpy float64 (np = TRUE); a missing identifier gives the Python float
\* 0.0 (np = FALSE).
SimilaridadeNode2vec(embeddings, a, b) ==
  IF a \notin DOMAIN embeddings \/ b \notin DOMAIN embeddings
  THEN [valor |-> Zero, np |-> FALSE]
  ELSE [valor |-> Frac(embeddings[a] * embeddings[b], 1), np |-> TRUE]

\* ---------------------------------------------------------------- similaridade_combinada
Metricas == {"jaccard_pred", "jaccard_succ", "profundidade", "node2vec"}

\* the pesos argument: << >> is None, <<d>> a caller-supplied dict with a
\* weight for each metric
ArgumentosPesos == { << >> } \cup { <<d>> : d \in [Metricas -> 0..MaxPeso] }

\* if pesos is None: every weight is 1.0
PesosEfetivos(arg) == IF arg = << >> THEN [m \in Metricas |-> 1] ELSE arg[1]

\* sum(pesos.values())
TotalPeso(pesos) ==
  pesos["jaccard_pred"] + pesos["jaccard_succ"] + pesos["profundidade"]
    + pesos["node2vec"]

\* the weighted sum that is divided by total_peso
Numerador(pesos, f) ==
  Soma(Soma(Vezes(pesos["jaccard_pred"], f.sim_jaccard_pred),
            Vezes(pesos["jaccard_succ"], f.sim_jaccard_succ)),
       Soma(Vezes(pesos["profundidade"], f.sim_profundidade),
            Vezes(pesos["node2vec"], f.sim_node2vec.valor)))

\* numerador / total_peso.  A numpy float64 divided by zero is inf, -inf or
\* nan with a warning: <<1, 0>>, <<-1, 0>>, <<0, 0>>.
Quociente(num, total) ==
  IF total = 0
  THEN <<(IF num[1] > 0 THEN 1 ELSE IF num[1] < 0 THEN -1 ELSE 0), 0>>
  ELSE Frac(num[1], num[2] * total)

\* sim_jaccard_pred and sim_jaccard_succ, computed on the graph passed in
CombJaccard ==
  /\ pc = "comb_jaccard"
  /\ \E G \in Grafos :
       frame' = [a |-> frame.a, b |-> frame.b, pesos |-> frame.pesos,
                 sim_jaccard_pred |-> SimilaridadeJaccard(G, frame.a, frame.b, "predecessor"),
                 sim_jaccard_succ |-> SimilaridadeJaccard(G, frame.a, frame.b, "successor")]
  /\ pc' = "comb_profundidade"
  /\ UNCHANGED <<grafo, G_copy, removidos, profundidades, ia, ib, rows, ret>>

\* sim_profundidade, computed on the depth map passed in
CombProfundidade ==
  /\ pc = "comb_profundidade"
  /\ \E prof \in MapasDeProfundidade(Ids) :
       frame' = [a |-> frame.a, b |-> frame.b, pesos |-> frame.pesos,
                 sim_jaccard_pred |-> frame.sim_jaccard_pred,
                 sim_jaccard_succ |-> frame.sim_jaccard_succ,
                 sim_profundidade |-> SimilaridadeProfundidade(prof, frame.a, frame.b)]
  /\ pc' = "comb_node2vec"
  /\ UNCHANGED <<grafo, G_copy, removidos, profundidades, ia, ib, rows, ret>>

\* sim_node2vec, computed on the embedding table passed in
CombNode2vec ==
  /\ pc = "comb_node2vec"
  /\ \E embeddings \in TabelasDeEmbeddings :
       frame' = [a |-> frame.a, b |-> frame.b, pesos |-> frame.pesos,
                 sim_jaccard_pred |-> frame.sim_jaccard_pred,
                 sim_jaccard_succ |-> frame.sim_jaccard_succ,
                 sim_profundidade |-> frame.sim_profundidade,
                 sim_node2vec |-> SimilaridadeNode2vec(embeddings, frame.a, frame.b)]
  /\ pc' = "comb_score"
  /\ UNCHANGED <<grafo, G_copy, removidos, profundidades, ia, ib, rows, ret>>

\* the division raises ZeroDivisionError: total_peso is 0 and the numerator
\* is a Python float (sim_node2vec is the Python 0.0 of a missing embedding)
CombErro ==
  /\ pc = "comb_score"
  /\ TotalPeso(PesosEfetivos(frame.pesos)) = 0
  /\ ~frame.sim_node2vec.np
  /\ pc' = "erro"
  /\ ret' = "ZeroDivisionError"
  /\ UNCHANGED <<grafo, G_copy, removidos, profundidades, ia, ib, rows, frame>>

\* the score is computed and the result dict returned
CombRetorna ==
  /\ pc = "comb_score"
  /\ TotalPeso(PesosEfetivos(frame.pesos)) # 0 \/ frame.sim_node2vec.np
  /\ LET pesos == PesosEfetivos(frame.pesos) IN
       ret' = [score_combinado |-> Quociente(Numerador(pesos, frame), TotalPeso(pesos)),
               jaccard_pred |-> frame.sim_jaccard_pred,
               jaccard_succ |-> frame.sim_jaccard_succ,
               profundidade |-> frame.sim_profundidade,
               node2vec |-> frame.sim_node2vec.valor]
  /\ pc' = "retornou"
  /\ UNCHANGED <<grafo, G_copy, removidos, profundidades, ia, ib, rows, frame>>

\* a call similaridade_combinada(G, embeddings, profundidades, a, b, pesos)
\* for two distinct identifiers
InitComb ==
  /\ frame \in { f \in [a : Ids, b : Ids, pesos : ArgumentosPesos] : f.a # f.b }
  /\ pc = "comb_jaccard"
  /\ ret = Nenhum
  /\ grafo = Nenhum /\ G_copy = Nenhum /\ removidos = Nenhum
  /\ profundidades = Nenhum /\ ia = Nenhum /\ ib = Nenhum /\ rows = Nenhum

NextComb ==
  CombJaccard \/ CombProfundidade \/ CombNode2vec \/ CombErro \/ CombRetorna

SpecComb == InitComb /\ [][NextComb]_vars

\* ---------------------------------------------------------------- properties of similaridade_combinada
\* C10: similaridade_combinada raises no error for any graph, depth map,
\* embedding table, pair of distinct identifiers and weight configuration;
\* every edge case gives a zero/default component and a result record is
\* always returned.
C10_SemErro ==
  pc \in {"comb_jaccard", "comb_profundidade", "comb_node2vec", "comb_score", "retornou"}

\* ---------------------------------------------------------------- properties of the remover_ciclos loop
\* the edge <<u, v>> lies on a directed cycle of G
EmCiclo(G, u, v) == <<u, v>> \in G.edges /\ (u = v \/ u \in Descendentes(G, v))

\* C11: the loop of remover_ciclos terminates; every iteration removes
\* exactly one edge, an edge of a cycle of the current graph, so the edge
\* count drops by one each time and the removals never exceed the number of
\* edges of the input.
C11_Termina ==
  /\ <>(pc # "remover_ciclos")
  /\ [][ (pc = "remover_ciclos" /\ pc' = "remover_ciclos") =>
           /\ G_copy'.edges \subseteq G_copy.edges
           /\ Cardinality(G_copy'.edges) = Cardinality(G_copy.edges) - 1
           /\ \E e \in G_copy.edges \ G_copy'.edges : EmCiclo(G_copy, e[1], e[2])
           /\ removidos' = removidos + 1
           /\ removidos' <= Cardinality(grafo.edges) ]_vars

\* the loop has ended after three or more removals, one for every edge of
\* the input but at most one
C11_Witness ==
  /\ pc = "calcular_profundidade"
  /\ removidos >= 3
  /\ removidos >= Cardinality(grafo.edges) - 1

\* ---------------------------------------------------------------- normalizar_nome
\* course names as they appear in DISCIPLINA and RECOMENDACAO cells
Nomes == {"Calculo", " CALCULO ", "Fisica"}

\* normalize_str(nome).lower(): NFKD, non-ASCII marks dropped, strip, lower
\* (the names here differ in case and surrounding blanks)
NormalizarNome(nome) ==
  CASE nome = "Calculo" -> "calculo"
    [] nome = " CALCULO " -> "calculo"
    [] nome = "CALCULO" -> "calculo"
    [] nome = "Fisica" -> "fisica"
    [] OTHER -> nome

\* rec.strip()
Strip(rec) ==
  CASE rec = " CALCULO " -> "CALCULO"
    [] OTHER -> rec

\* ---------------------------------------------------------------- construir_grafo
\* recs.split(';'): the cell "" gives one empty token
ListasDeRecomendacao ==
  { <<"">> } \cup UNION { [1..k -> Nomes] : k \in 1..MaxRecs }

\* a row of df: SIGLA and RECOMENDACAO are << >> when the cell is NaN and
\* <<value>> otherwise; RECOMENDACAO holds the tokens between the ';'
Registros ==
  [SIGLA : { << >> } \cup { <<i>> : i \in Ids },
   DISCIPLINA : Nomes,
   RECOMENDACAO : { << >> } \cup { <<l>> : l \in ListasDeRecomendacao },
   T : 0..MaxTPEI, P : {0}, E : {0}, I : {0}]

\* the dict comprehension: rows with a SIGLA, later rows overwrite earlier
\* ones with the same normalized name
RECURSIVE Mapping(_, _)
Mapping(df, n) ==
  IF n = 0 THEN << >>
  ELSE LET antes == Mapping(df, n - 1)
           row == df[n] IN
         IF row.SIGLA = << >> THEN antes
         ELSE [k \in DOMAIN antes \cup {NormalizarNome(row.DISCIPLINA)} |->
                 IF k = NormalizarNome(row.DISCIPLINA) THEN row.SIGLA[1]
                 ELSE antes[k]]

\* G.add_node(sigla, nome=nome): the node is created if new, its nome set
AddNode(G, sigla, nome) ==
  [nodes |-> G.nodes \cup {sigla},
   edges |-> G.edges,
   attrs |-> [n \in G.nodes \cup {sigla} |->
                IF n = sigla
                THEN [k \in (IF n \in G.nodes THEN DOMAIN G.attrs[n] ELSE {}) \cup {"nome"} |->
                        IF k = "nome" THEN nome ELSE G.attrs[n][k]]
                ELSE G.attrs[n]]]

\* the edges (prereq, curso) the inner loop adds for one row: tokens that
\* are not empty after strip and whose normalized form is in mapping
ArestasDe(mapping, curso, recs) ==
  { <<mapping[NormalizarNome(Strip(recs[i]))], curso>> :
      i \in { j \in DOMAIN recs :
                /\ Strip(recs[j]) # ""
                /\ NormalizarNome(Strip(recs[j])) \in DOMAIN mapping } }

\* G.add_edge(prereq, curso) for every edge of novas; add_edge creates a
\* missing endpoint without attributes
AddEdges(G, novas) ==
  LET pontas == { e[1] : e \in novas } \cup { e[2] : e \in novas } IN
    [nodes |-> G.nodes \cup pontas,
     edges |-> G.edges \cup novas,
     attrs |-> [n \in G.nodes \cup pontas |->
                  IF n \in G.nodes THEN G.attrs[n] ELSE << >>]]

\* the three loops run over the rows in order; after the last row of the
\* node loop the edge loop starts, after the last row of the edge loop the
\* graph is returned
ProximaLinha ==
  IF ia < Len(frame.df) THEN ia' = ia + 1 /\ pc' = pc
  ELSE IF pc = "cg_nos" THEN ia' = 1 /\ pc' = "cg_arestas"
  ELSE ia' = ia /\ pc' = "cg_fim"

\* mapping = {...}
CgMapping ==
  /\ pc = "cg_mapping"
  /\ frame' = [df |-> frame.df, total_arestas |-> frame.total_arestas,
               mapping |-> Mapping(frame.df, Len(frame.df))]
  /\ pc' = "cg_nos"
  /\ ia' = 1
  /\ UNCHANGED <<grafo, G_copy, removidos, profundidades, ib, rows, ret>>

\* node loop, a row without SIGLA: continue
CgNoSemSigla ==
  /\ pc = "cg_nos"
  /\ frame.df[ia].SIGLA = << >>
  /\ ProximaLinha
  /\ UNCHANGED <<grafo, G_copy, removidos, profundidades, ib, rows, ret, frame>>

\* node loop: G.add_node(sigla, nome=nome)
CgNo ==
  /\ pc = "cg_nos"
  /\ frame.df[ia].SIGLA # << >>
  /\ grafo' = AddNode(grafo, frame.df[ia].SIGLA[1], frame.df[ia].DISCIPLINA)
  /\ ProximaLinha
  /\ UNCHANGED <<G_copy, removidos, profundidades, ib, rows, ret, frame>>

\* edge loop, a row without SIGLA or whose RECOMENDACAO is not a string:
\* continue
CgArestaPula ==
  /\ pc = "cg_arestas"
  /\ frame.df[ia].SIGLA = << >> \/ frame.df[ia].RECOMENDACAO = << >>
  /\ ProximaLinha
  /\ UNCHANGED <<grafo, G_copy, removidos, profundidades, ib, rows, ret, frame>>

\* edge loop: every token of the row that resolves adds its edge unless the
\* graph has it; total_arestas counts the edges added
CgAresta ==
  /\ pc = "cg_arestas"
  /\ frame.df[ia].SIGLA # << >> /\ frame.df[ia].RECOMENDACAO # << >>
  /\ LET novas == ArestasDe(frame.mapping, frame.df[ia].SIGLA[1],
                            frame.df[ia].RECOMENDACAO[1]) IN
       /\ grafo' = AddEdges(grafo, novas)
       /\ frame' = [df |-> frame.df, mapping |-> frame.mapping,
                    total_arestas |-> frame.total_arestas
                                        + Cardinality(novas \ grafo.edges)]
  /\ ProximaLinha
  /\ UNCHANGED <<G_copy, removidos, profundidades, ib, rows, ret>>

\* state at the call construir_grafo(df): G = nx.DiGraph(), total_arestas = 0
InitGrafo ==
  /\ frame \in [df : [1..NumRegistros -> Registros], total_arestas : {0}]
  /\ grafo = [nodes |-> {}, edges |-> {}, attrs |-> << >>]
  /\ pc = "cg_mapping"
  /\ ia = 1
  /\ G_copy = Nenhum /\ removidos = Nenhum /\ profundidades = Nenhum
  /\ ib = Nenhum /\ rows = Nenhum /\ ret = Nenhum

NextGrafo == CgMapping \/ CgNoSemSigla \/ CgNo \/ CgArestaPula \/ CgAresta

SpecGrafo == InitGrafo /\ [][NextGrafo]_vars

\* ---------------------------------------------------------------- properties of construir_grafo
\* C12: the graph construir_grafo builds has no self-loop, also when a
\* row's recommendation list holds that row's own (normalized) name.
C12_SemLaco ==
  pc \in {"cg_arestas", "cg_fim"} => \A e \in grafo.edges : e[1] # e[2]

\* the rows of the table that have an identifier
ComSigla == { i \in DOMAIN frame.df : frame.df[i].SIGLA # << >> }

\* C13: construir_grafo inserts exactly one node per row that has an
\* identifier and none for the others, and each node carries the row's
\* display name and its T, P, E, I, so that filtro_tpei_exato on the built
\* graph compares the rows' attribute values (rows with distinct
\* identifiers).
C13_NosComAtributos ==
  (pc = "cg_fim"
     /\ \A i, j \in ComSigla : i # j => frame.df[i].SIGLA # frame.df[j].SIGLA) =>
    /\ grafo.nodes = { frame.df[i].SIGLA[1] : i \in ComSigla }
    /\ Cardinality(grafo.nodes) = Cardinality(ComSigla)
    /\ \A i \in ComSigla :
         LET row == frame.df[i]
             dados == grafo.attrs[row.SIGLA[1]] IN
           /\ "nome" \in DOMAIN dados /\ dados["nome"] = row.DISCIPLINA
           /\ "T" \in DOMAIN dados /\ dados["T"] = row.T
           /\ "P" \in DOMAIN dados /\ dados["P"] = row.P
           /\ "E" \in DOMAIN dados /\ dados["E"] = row.E
           /\ "I" \in DOMAIN dados /\ dados["I"] = row.I
    /\ \A i, j \in ComSigla :
         FiltroTpeiExato(grafo, frame.df[i].SIGLA[1], frame.df[j].SIGLA[1])
           <=> /\ frame.df[i].T = frame.df[j].T /\ frame.df[i].P = frame.df[j].P
               /\ frame.df[i].E = frame.df[j].E /\ frame.df[i].I = frame.df[j].I

====
